---- MODULE Spec2Model ----
(***************************************************************************)
(* A model of the node graph of the xml_dom crate: the NodeImpl record     *)
(* (node type, name, value, weak parent, weak owner document, strong child *)
(* list, Document and Element extensions) and the operations of            *)
(* trait_impls.rs that build and change it: the Document factory methods,  *)
(* append_child, insert_before, the child and sibling queries, the         *)
(* CharacterData edits, Text::split, the Element attribute methods and the *)
(* tag-name search.                                                        *)
(*                                                                         *)
(* A node is an identifier; identifiers are handed out in creation order   *)
(* and never reused.  A strong reference keeps a node alive, a weak one    *)
(* (parent, owner document) may outlive its referent, in which case        *)
(* upgrade() yields nothing.  An operation is a function from the heap to  *)
(* a new heap, a result (Ok, an Error kind, or Panic for an unwrap or a    *)
(* RefCell borrow that aborts) and the node it returns.                    *)
(***************************************************************************)
EXTENDS Integers, Sequences, FiniteSets, TLC

\* Bounds of the model.
MaxNodes == 4
MaxEdges == 3
MaxKindEdges == 1
MaxTreeEdges == 2
MaxDataNodes == 1
MaxLen == 2

\* Option::None for a node reference.
NoNode == 0

NodeIds == 1..MaxNodes

\* enum NodeType; "Unused" marks an identifier not handed out yet.
NodeTypes ==
    {"Element", "Attribute", "Text", "CData", "EntityReference", "Entity",
     "ProcessingInstruction", "Comment", "Document", "DocumentType",
     "DocumentFragment", "Notation"}

\* Option<String>: i_value is either None or Some(data).
NoValue == [some |-> FALSE, data |-> <<>>]

SomeValue(s) == [some |-> TRUE, data |-> s]

VARIABLES
    i_node_type,         \* NodeImpl.i_node_type, "Unused" before creation
    i_name,              \* NodeImpl.i_name
    alive,               \* the node's storage exists (strong count > 0)
    i_parent_node,       \* weak reference to the parent, NoNode for None
    i_owner_document,    \* weak reference to the owner document
    i_child_nodes,       \* the child list, strong references
    i_value,             \* the node value
    i_document_element,  \* Extension::Document.i_document_element
    i_document_type,     \* Extension::Document.i_document_type
    i_attributes,        \* Extension::Element.i_attributes, Name -> node
    i_namespaces,        \* Extension::Element prefix -> URI mapping
    overflow_checks,     \* the build aborts on integer overflow, or wraps
    held                 \* the caller holds a strong reference to the node

vars ==
    <<i_node_type, i_name, alive, i_parent_node, i_owner_document,
      i_child_nodes, i_value, i_document_element, i_document_type,
      i_attributes, i_namespaces, overflow_checks, held>>

\* The heap as one value, so that an operation is a function of it.
Heap ==
    [i_node_type |-> i_node_type, i_name |-> i_name, alive |-> alive,
     i_parent_node |-> i_parent_node, i_owner_document |-> i_owner_document,
     i_child_nodes |-> i_child_nodes, i_value |-> i_value,
     i_document_element |-> i_document_element,
     i_document_type |-> i_document_type,
     i_attributes |-> i_attributes, i_namespaces |-> i_namespaces,
     overflow_checks |-> overflow_checks, held |-> held]

\* Result<RefNode>: the heap after the call, Ok or the error (or Panic), and
\* the node returned.
Ok(h, node) == [h |-> h, result |-> "Ok", ret |-> node]

Err(h, error) == [h |-> h, result |-> error, ret |-> NoNode]

\* Weak::upgrade: the node, or nothing once it is destroyed.
upgrade(h, weak) == IF weak # NoNode /\ h.alive[weak] THEN weak ELSE NoNode

----------------------------------------------------------------------------
\* Name: a local name and an optional prefix ("" for none).  A string that
\* holds a name is the sequence of its parts: <<local>> or
\* <<prefix, ":", local>>.

\* The reserved name and prefix of a namespace declaration.
XMLNS == "xmlns"

\* The parts a well-formed name is made of.
NameParts == {"a", "b", "p", XMLNS}

\* The wild card of the tag-name search.
WILD_CARD == <<"*">>

\* The name of a slot that holds no node.
NoName == [prefix |-> "", local_name |-> "", namespace_uri |-> NoValue]

\* An empty HashMap.
NoEntries == [k \in {} |-> NoNode]

\* Name::from_str: the name a string holds, or the error for a string that
\* is not a name.
from_str(qualified_name) ==
    IF Len(qualified_name) = 1 /\ qualified_name[1] \in NameParts
    THEN [result |-> "Ok",
          name |-> [prefix |-> "", local_name |-> qualified_name[1],
                    namespace_uri |-> NoValue]]
    ELSE IF /\ Len(qualified_name) = 3
            /\ qualified_name[1] \in NameParts
            /\ qualified_name[2] = ":"
            /\ qualified_name[3] \in NameParts
    THEN [result |-> "Ok",
          name |-> [prefix |-> qualified_name[1],
                    local_name |-> qualified_name[3],
                    namespace_uri |-> NoValue]]
    ELSE [result |-> "InvalidCharacter", name |-> NoName]

\* Name::new_ns: the name a string holds, in the namespace given; a prefix
\* with an empty namespace URI is refused.
new_ns(namespace_uri, qualified_name) ==
    LET parsed == from_str(qualified_name) IN
    IF parsed.result # "Ok" THEN parsed
    ELSE IF namespace_uri = <<>> /\ parsed.name.prefix # ""
    THEN [result |-> "Namespace", name |-> NoName]
    ELSE [result |-> "Ok",
          name |-> [parsed.name EXCEPT
                       !.namespace_uri = SomeValue(namespace_uri)]]

\* Name::to_string: the form of the name in markup.
to_string(name) ==
    IF name.prefix = "" THEN <<name.local_name>>
    ELSE <<name.prefix, ":", name.local_name>>

\* Name::is_namespace_attribute: the name xmlns, or the prefix xmlns.
is_namespace_attribute(name) ==
    \/ name.prefix = "" /\ name.local_name = XMLNS
    \/ name.prefix = XMLNS

\* The name NodeImpl::new_* gives a node whose type fixes its name.
type_name(type) ==
    [prefix |-> "", local_name |-> "#" \o type, namespace_uri |-> NoValue]

\* HashMap::insert: the map with key bound to value, whatever it held.
map_insert(map, key, value) ==
    [k \in (DOMAIN map) \cup {key} |-> IF k = key THEN value ELSE map[k]]

----------------------------------------------------------------------------
\* Sequence helpers (Vec operations).

\* Iterator::position: the first index holding x, 0 when there is none.
position(s, x) ==
    IF \E i \in 1..Len(s) : s[i] = x
    THEN CHOOSE i \in 1..Len(s) : s[i] = x /\ \A j \in 1..(i - 1) : s[j] # x
    ELSE 0

\* Vec::insert(index, x) with a 1-based index: x ends up at s'[index].
insert_at(s, index, x) ==
    SubSeq(s, 1, index - 1) \o <<x>> \o SubSeq(s, index, Len(s))

\* The number of entries of all child lists together.
RECURSIVE EdgesUpTo(_, _)
EdgesUpTo(h, n) ==
    IF n = 0 THEN 0 ELSE Len(h.i_child_nodes[n]) + EdgesUpTo(h, n - 1)

Edges(h) == EdgesUpTo(h, MaxNodes)

\* The next identifier to hand out, NoNode when all are in use.
fresh(h) ==
    IF \E n \in NodeIds : h.i_node_type[n] = "Unused"
    THEN CHOOSE n \in NodeIds :
            /\ h.i_node_type[n] = "Unused"
            /\ \A m \in 1..(n - 1) : h.i_node_type[m] # "Unused"
    ELSE NoNode

Alive == {n \in NodeIds : alive[n]}

\* The nodes the caller has a handle on, to call a method on or to pass.
Held == {n \in NodeIds : alive[n] /\ held[n]}

----------------------------------------------------------------------------
\* NodeImpl::new_*: a detached node of the given type, name, value and owner.
new_node(h, n, type, name, owner, value) ==
    [h EXCEPT !.i_node_type[n] = type,
              !.i_name[n] = name,
              !.alive[n] = TRUE,
              !.i_parent_node[n] = NoNode,
              !.i_owner_document[n] = owner,
              !.i_child_nodes[n] = <<>>,
              !.i_value[n] = value,
              !.i_document_element[n] = NoNode,
              !.i_document_type[n] = NoNode,
              !.i_attributes[n] = NoEntries,
              !.i_namespaces[n] = NoEntries,
              !.held[n] = TRUE]

----------------------------------------------------------------------------
\* The checked casts of the convert module: as_element[_mut] succeeds on an
\* Element only, as_character_data[_mut] on Text, CData and Comment only.
is_element(h, n) == h.i_node_type[n] = "Element"

is_character_data(h, n) == h.i_node_type[n] \in {"Text", "CData", "Comment"}

\* The error a failed cast returns.
CastError == "InvalidState"

----------------------------------------------------------------------------
\* CharacterData

\* usize::MAX, of a machine word scaled down to three bits.
UsizeMax == 7

\* offset + count in usize: the sum when it fits the word; when it does not,
\* a build with overflow checks aborts and one without wraps around.
usize_add(h, a, b) ==
    IF a + b <= UsizeMax THEN [panic |-> FALSE, sum |-> a + b]
    ELSE IF h.overflow_checks THEN [panic |-> TRUE, sum |-> 0]
    ELSE [panic |-> FALSE, sum |-> (a + b) % (UsizeMax + 1)]

\* CharacterData::length: 0 when there is no value.
length(h, n) == IF h.i_value[n].some THEN Len(h.i_value[n].data) ELSE 0

\* &data[from..] with a 0-based byte offset.
str_from(data, from) == SubSeq(data, from + 1, Len(data))

\* &data[from..to], 0-based and exclusive of to.
str_range(data, from, to) == SubSeq(data, from + 1, to)

\* substring without the early return of the zero-length case.
substring_checks_offset(h, n, offset, count) ==
    IF ~h.i_value[n].some
    THEN [result |-> "IndexSize", str |-> <<>>]
    ELSE IF offset >= Len(h.i_value[n].data)
    THEN [result |-> "IndexSize", str |-> <<>>]
    ELSE [result |-> "Ok",
          str |-> str_range(h.i_value[n].data, offset, offset + count)]

\* CharacterData::substring: the result and the string.
substring(h, n, offset, count) ==
    LET end == usize_add(h, offset, count) IN
    IF end.panic THEN [result |-> "Panic", str |-> <<>>]
    ELSE IF end.sum = offset
    THEN [result |-> "Ok", str |-> <<>>]
    ELSE IF ~h.i_value[n].some
    THEN [result |-> "IndexSize", str |-> <<>>]
    ELSE LET data == h.i_value[n].data IN
         IF offset >= Len(data)
         THEN [result |-> "IndexSize", str |-> <<>>]
         ELSE IF end.sum >= Len(data)
         THEN [result |-> "Ok", str |-> str_from(data, offset)]
         ELSE IF end.sum < offset
         THEN [result |-> "Panic", str |-> <<>>] \* slice from offset to less
         ELSE [result |-> "Ok", str |-> str_range(data, offset, end.sum)]

\* CharacterData::replace: the heap and the result.
replace(h, n, offset, count, replace_data) ==
    IF ~h.i_value[n].some
    THEN LET end == usize_add(h, offset, count) IN
         IF end.panic THEN [h |-> h, result |-> "Panic"]
         ELSE IF end.sum # 0
         THEN [h |-> h, result |-> "IndexSize"]
         ELSE [h |-> [h EXCEPT !.i_value[n] = SomeValue(replace_data)],
               result |-> "Ok"]
    ELSE LET old_data == h.i_value[n].data IN
         IF offset >= Len(old_data)
         THEN [h |-> h, result |-> "IndexSize"]
         ELSE LET end == usize_add(h, offset, count) IN
              IF end.panic THEN [h |-> h, result |-> "Panic"]
              ELSE IF end.sum >= Len(old_data)
              THEN [h |-> [h EXCEPT !.i_value[n] =
                               SomeValue(str_range(old_data, 0, offset)
                                             \o replace_data)],
                    result |-> "Ok"]
              ELSE IF end.sum < offset
              THEN [h |-> h, result |-> "Panic"] \* range from offset to less
              ELSE [h |-> [h EXCEPT !.i_value[n] =
                               SomeValue(str_range(old_data, 0, offset)
                                             \o replace_data
                                             \o str_from(old_data, end.sum))],
                    result |-> "Ok"]

\* CharacterData::delete
delete(h, n, offset, count) ==
    LET end == usize_add(h, offset, count) IN
    IF end.panic THEN [h |-> h, result |-> "Panic"]
    ELSE IF end.sum = offset
    THEN [h |-> h, result |-> "Ok"]
    ELSE replace(h, n, offset, count, <<>>)

\* Node::node_value, and CharacterData::data and Attribute::value that call
\* it: the value, Some or None.
node_value(h, n) == h.i_value[n]

\* CharacterData::append
append(h, n, new_data) ==
    IF new_data = <<>>
    THEN [h |-> h, result |-> "Ok"]
    ELSE IF ~h.i_value[n].some
    THEN [h |-> [h EXCEPT !.i_value[n] = SomeValue(new_data)], result |-> "Ok"]
    ELSE [h |-> [h EXCEPT !.i_value[n] =
                              SomeValue(h.i_value[n].data \o new_data)],
          result |-> "Ok"]

\* CharacterData::insert
insert(h, n, offset, new_data) ==
    IF new_data = <<>>
    THEN [h |-> h, result |-> "Ok"]
    ELSE replace(h, n, offset, 0, new_data)

\* Node::set_node_value
set_node_value(h, n, value) ==
    [h |-> [h EXCEPT !.i_value[n] = SomeValue(value)], result |-> "Ok"]

\* Node::unset_node_value
unset_node_value(h, n) ==
    [h |-> [h EXCEPT !.i_value[n] = NoValue], result |-> "Ok"]

----------------------------------------------------------------------------
\* Node: queries

\* Node::parent_node
parent_node(h, n) == upgrade(h, h.i_parent_node[n])

\* Node::owner_document
owner_document(h, n) == upgrade(h, h.i_owner_document[n])

\* Node::child_nodes
child_nodes(h, n) == h.i_child_nodes[n]

\* Node::first_child: i_child_nodes.first()
first_child(h, n) ==
    IF h.i_child_nodes[n] = <<>> THEN NoNode ELSE h.i_child_nodes[n][1]

\* Node::last_child: i_child_nodes.first() as well
last_child(h, n) ==
    IF h.i_child_nodes[n] = <<>> THEN NoNode ELSE h.i_child_nodes[n][1]

\* Node::previous_sibling
previous_sibling(h, n) ==
    IF h.i_parent_node[n] = NoNode THEN NoNode
    ELSE LET parent == upgrade(h, h.i_parent_node[n]) IN
         IF parent = NoNode THEN NoNode
         ELSE LET index == position(h.i_child_nodes[parent], n) IN
              IF index = 0 THEN NoNode
              ELSE IF index = 1 THEN NoNode
              ELSE h.i_child_nodes[parent][index - 1]

\* next_sibling reading the entry at the index found, not the one after it.
next_sibling_at_index(h, n) ==
    IF h.i_parent_node[n] = NoNode THEN NoNode
    ELSE LET parent == upgrade(h, h.i_parent_node[n]) IN
         IF parent = NoNode THEN NoNode
         ELSE LET index == position(h.i_child_nodes[parent], n) IN
              IF index = 0 THEN NoNode
              ELSE h.i_child_nodes[parent][index]

\* Node::next_sibling
next_sibling(h, n) ==
    IF h.i_parent_node[n] = NoNode THEN NoNode
    ELSE LET parent == upgrade(h, h.i_parent_node[n]) IN
         IF parent = NoNode THEN NoNode
         ELSE LET index == position(h.i_child_nodes[parent], n) IN
              IF index = 0 THEN NoNode
              ELSE IF index + 1 <= Len(h.i_child_nodes[parent])
              THEN h.i_child_nodes[parent][index + 1]
              ELSE NoNode

----------------------------------------------------------------------------
\* Node: the child-allowance rules

\* The match with the Element arm copied to the Document arm.
child_type_allowed_document_as_element(self_node_type, child_node_type) ==
    CASE self_node_type \in {"Element", "EntityReference", "Entity",
                             "DocumentFragment", "Document"} ->
            child_node_type \in
                {"Element", "Text", "Comment", "ProcessingInstruction",
                 "CData", "EntityReference"}
      [] self_node_type = "Attribute" ->
            child_node_type \in {"Text", "EntityReference"}
      [] OTHER -> FALSE

\* The match of is_child_allowed on the two node types.
child_type_allowed(self_node_type, child_node_type) ==
    CASE self_node_type = "Element" ->
            child_node_type \in
                {"Element", "Text", "Comment", "ProcessingInstruction",
                 "CData", "EntityReference"}
      [] self_node_type = "Attribute" ->
            child_node_type \in {"Text", "EntityReference"}
      [] self_node_type = "Text" -> FALSE
      [] self_node_type = "CData" -> FALSE
      [] self_node_type = "EntityReference" ->
            child_node_type \in
                {"Element", "Text", "Comment", "ProcessingInstruction",
                 "CData", "EntityReference"}
      [] self_node_type = "Entity" ->
            child_node_type \in
                {"Element", "Text", "Comment", "ProcessingInstruction",
                 "CData", "EntityReference"}
      [] self_node_type = "ProcessingInstruction" -> FALSE
      [] self_node_type = "Comment" -> FALSE
      [] self_node_type = "Document" ->
            child_node_type \in
                {"Element", "Comment", "ProcessingInstruction", "DocumentType"}
      [] self_node_type = "DocumentType" -> FALSE
      [] self_node_type = "DocumentFragment" ->
            child_node_type \in
                {"Element", "Text", "Comment", "ProcessingInstruction",
                 "CData", "EntityReference"}
      [] self_node_type = "Notation" -> FALSE

\* is_child_allowed(parent, child)
is_child_allowed(h, parent, child) ==
    child_type_allowed(h.i_node_type[parent], h.i_node_type[child])

\* The owner-document check of append_child: both parents are read from
\* self; "true" lets the call go on, "false" is WrongDocument, "panic" is an
\* unwrap of an upgrade that returned nothing.
same_document_check(h, self, new_child) ==
    LET self_parent == h.i_parent_node[self]
        child_parent == h.i_parent_node[self]
    IN CASE self_parent = NoNode /\ child_parent = NoNode -> "true"
         [] self_parent # NoNode /\ child_parent = NoNode -> "true"
         [] self_parent = NoNode /\ child_parent # NoNode -> "false"
         [] OTHER ->
              IF upgrade(h, self_parent) = NoNode
                 \/ upgrade(h, child_parent) = NoNode
              THEN "panic"
              ELSE IF upgrade(h, self_parent) = upgrade(h, child_parent)
              THEN "true"
              ELSE "false"

\* The update without the assignment of the owner document.
attach_child_keeps_owner(h, self, new_child) ==
    [h EXCEPT !.i_parent_node[new_child] = self,
              !.i_child_nodes[self] = Append(h.i_child_nodes[self], new_child)]

\* The update of append_child once the checks passed: the child's two
\* back-references, then the push onto the child list.
attach_child(h, self, new_child) ==
    [h EXCEPT !.i_parent_node[new_child] = self,
              !.i_owner_document[new_child] = h.i_owner_document[self],
              !.i_child_nodes[self] = Append(h.i_child_nodes[self], new_child)]

\* Node::append_child
append_child(h, self, new_child) ==
    IF ~is_child_allowed(h, self, new_child)
    THEN Err(h, "HierarchyRequest")
    ELSE LET check == same_document_check(h, self, new_child) IN
         IF check = "panic" THEN Err(h, "Panic")
         ELSE IF check = "false" THEN Err(h, "WrongDocument")
         ELSE IF new_child = self
         THEN Err(h, "Panic")     \* borrow_mut of a node that is borrowed
         ELSE Ok(attach_child(h, self, new_child), new_child)

\* The Some(ref_child) arm inserting behind the reference child.
insert_in_list_behind(h, self, new_child, ref_child) ==
    LET index == position(h.i_child_nodes[self], ref_child) IN
    [h EXCEPT !.i_child_nodes[self] =
                  IF index = 0
                  THEN Append(h.i_child_nodes[self], new_child)
                  ELSE insert_at(h.i_child_nodes[self], index + 1, new_child)]

\* The Some(ref_child) arm of insert_before: the child list alone changes.
insert_in_list(h, self, new_child, ref_child) ==
    LET index == position(h.i_child_nodes[self], ref_child) IN
    [h EXCEPT !.i_child_nodes[self] =
                  IF index = 0
                  THEN Append(h.i_child_nodes[self], new_child)
                  ELSE insert_at(h.i_child_nodes[self], index, new_child)]

\* Node::insert_before; ref_child = NoNode is None.
insert_before(h, self, new_child, ref_child) ==
    IF ref_child = NoNode
    THEN IF ~is_element(h, self)
         THEN Err(h, CastError)
         ELSE append_child(h, self, new_child)
    ELSE Ok(insert_in_list(h, self, new_child, ref_child), new_child)

----------------------------------------------------------------------------
\* Text

\* The second half of Text::split: the new node, and its place in the tree.
\* h is the heap once the data of self has been cut.
split_node(h, self, new_data) ==
    IF h.i_node_type[self] \notin {"Text", "CData"}
    THEN Err(h, "Syntax")
    ELSE IF h.i_owner_document[self] = NoNode
    THEN Err(h, "Panic")          \* i_owner_document.as_ref().unwrap()
    ELSE LET n == fresh(h)
             made == new_node(h, n, h.i_node_type[self], h.i_name[self],
                              h.i_owner_document[self], SomeValue(new_data))
         IN IF h.i_parent_node[self] = NoNode
            THEN Ok(made, n)
            ELSE LET linked ==
                         [made EXCEPT !.i_parent_node[n] = h.i_parent_node[self]]
                     parent == upgrade(h, h.i_parent_node[self])
                 IN IF parent = NoNode
                    THEN Err(h, "Panic")      \* parent.upgrade().unwrap()
                    ELSE IF ~is_element(h, parent)
                    THEN Err(h, CastError)
                    ELSE LET r == insert_before(linked, parent, n,
                                                next_sibling(linked, self))
                         IN IF r.result = "Ok"
                            THEN Ok(r.h, n)
                            ELSE Err(h, r.result)

\* Text::split hands a new node to insert_before, or returns it detached: the
\* call gets past the casts and unwraps that come before.  Only then does the
\* new node take an identifier that anything can see.
split_makes_node(h, self) ==
    /\ h.i_node_type[self] \in {"Text", "CData"}
    /\ h.i_owner_document[self] # NoNode
    /\ h.i_parent_node[self] # NoNode
           => /\ upgrade(h, h.i_parent_node[self]) # NoNode
              /\ is_element(h, h.i_parent_node[self])

\* Text::split
split(h, self, offset) ==
    IF ~is_character_data(h, self)
    THEN Err(h, CastError)
    ELSE LET len == length(h, self) IN
         IF offset >= len
         THEN split_node(h, self, <<>>)
         ELSE LET count == len - offset
                  sub == substring(h, self, offset, count)
                  del == delete(h, self, offset, count)
              IN IF sub.result # "Ok" THEN Err(h, sub.result)
                 ELSE IF del.result # "Ok" THEN Err(del.h, del.result)
                 ELSE split_node(del.h, self, sub.str)

----------------------------------------------------------------------------
\* Document and DOMImplementation: the factory methods

\* Document::create_text_node, create_comment, create_cdata_section, ...: a
\* detached node owned by the document the method is called on, its name
\* fixed by its type.
create_node(h, document, type, value) ==
    LET n == fresh(h)
    IN Ok(new_node(h, n, type, type_name(type), document, value), n)

\* Document::create_element, create_element_ns, create_attribute,
\* create_attribute_with, create_entity_reference: the same, of a node named
\* by the caller; a string that is not a name is refused.
create_named(h, document, type, qualified_name, value) ==
    LET parsed == from_str(qualified_name)
        n == fresh(h)
    IN IF parsed.result # "Ok" THEN Err(h, parsed.result)
       ELSE Ok(new_node(h, n, type, parsed.name, document, value), n)

\* Document::create_element_ns, create_attribute_ns: the same, the name made
\* by Name::new_ns in the namespace given.
create_named_ns(h, document, type, namespace_uri, qualified_name) ==
    LET parsed == new_ns(namespace_uri, qualified_name)
        n == fresh(h)
    IN IF parsed.result # "Ok" THEN Err(h, parsed.result)
       ELSE Ok(new_node(h, n, type, parsed.name, document, NoValue), n)

\* Document::create_element_ns
create_element_ns(h, document, namespace_uri, qualified_name) ==
    create_named_ns(h, document, "Element", namespace_uri, qualified_name)

\* Document::create_attribute_ns: no value.
create_attribute_ns(h, document, namespace_uri, qualified_name) ==
    create_named_ns(h, document, "Attribute", namespace_uri, qualified_name)

\* Document::create_element
create_element(h, document, tag_name) ==
    create_named(h, document, "Element", tag_name, NoValue)

\* Document::create_attribute (no value) and create_attribute_with.
create_attribute(h, document, name, value) ==
    create_named(h, document, "Attribute", name, value)

\* Document::create_processing_instruction: named by its target, which must
\* be a name; data is the value, if any.
create_processing_instruction(h, document, target, data) ==
    create_named(h, document, "ProcessingInstruction", target, data)

\* create_document that drops the document type it is given.
create_document_without_doc_type(h, namespace_uri, qualified_name, doc_type) ==
    LET parsed == new_ns(namespace_uri, qualified_name)
        d == fresh(h)
        document == new_node(h, d, "Document", parsed.name, NoNode, NoValue)
        element == create_element_ns(document, d, namespace_uri, qualified_name)
    IN IF parsed.result # "Ok" THEN Err(h, parsed.result)
       ELSE Ok([element.h EXCEPT !.i_document_element[d] = element.ret,
                                 !.held[element.ret] = FALSE], d)

\* DOMImplementation::create_document: the Document, then its root element,
\* created by the document and installed as its document element.  The
\* Document is what the caller gets; the root element the document holds.
create_document(h, namespace_uri, qualified_name, doc_type) ==
    LET parsed == new_ns(namespace_uri, qualified_name)
        d == fresh(h)
        document == [new_node(h, d, "Document", parsed.name, NoNode, NoValue)
                        EXCEPT !.i_document_type[d] = doc_type]
        element == create_element_ns(document, d, namespace_uri, qualified_name)
    IN IF parsed.result # "Ok" THEN Err(h, parsed.result)
       ELSE Ok([element.h EXCEPT !.i_document_element[d] = element.ret,
                                 !.held[element.ret] = FALSE], d)

\* DOMImplementation::create_document_type: named by the caller, owned by no
\* document; a string that is not a name is refused.
create_document_type(h, qualified_name) ==
    LET parsed == from_str(qualified_name)
        n == fresh(h)
    IN IF parsed.result # "Ok" THEN Err(h, parsed.result)
       ELSE Ok(new_node(h, n, "DocumentType", parsed.name, NoNode, NoValue), n)

----------------------------------------------------------------------------
\* The strong references to a node held by live nodes.
referenced(h, n) ==
    \E m \in NodeIds :
        /\ h.alive[m]
        /\ \/ \E i \in 1..Len(h.i_child_nodes[m]) : h.i_child_nodes[m][i] = n
           \/ \E k \in DOMAIN h.i_attributes[m] : h.i_attributes[m][k] = n
           \/ h.i_document_element[m] = n
           \/ h.i_document_type[m] = n

\* Drop of the last strong reference to a node: its storage goes, and with it
\* the strong references it held.
destroy(h, n) ==
    [h EXCEPT !.alive[n] = FALSE,
              !.i_parent_node[n] = NoNode,
              !.i_owner_document[n] = NoNode,
              !.i_child_nodes[n] = <<>>,
              !.i_value[n] = NoValue,
              !.i_document_element[n] = NoNode,
              !.i_document_type[n] = NoNode,
              !.i_attributes[n] = NoEntries,
              !.i_namespaces[n] = NoEntries,
              !.held[n] = FALSE]

\* The nodes nothing holds any more: no handle of the caller, no strong
\* reference of a live node.
unowned(h) ==
    {n \in NodeIds : h.alive[n] /\ ~h.held[n] /\ ~referenced(h, n)}

\* Rc::drop, to the end: a node nothing holds is destroyed, and then the nodes
\* only it held.
RECURSIVE collect_within(_, _)
collect_within(h, k) ==
    IF k = 0 \/ unowned(h) = {} THEN h
    ELSE collect_within(destroy(h, CHOOSE n \in unowned(h) : TRUE), k - 1)

collect(h) == collect_within(h, MaxNodes)

----------------------------------------------------------------------------
\* Element: attributes

\* The caller keeps the handle a call returned.
hold(h, n) == IF n = NoNode THEN h ELSE [h EXCEPT !.held[n] = TRUE]

\* convert::is_attribute
is_attribute(h, n) == h.i_node_type[n] = "Attribute"

\* Element::get_attribute: the value of the attribute of that name, None when
\* the receiver is no Element, the string no name, the name not in the map or
\* the attribute without a value.
get_attribute(h, self, name) ==
    IF ~is_element(h, self) THEN NoValue
    ELSE IF from_str(name).result # "Ok" THEN NoValue
    ELSE LET attr_name == from_str(name).name IN
         IF attr_name \notin DOMAIN h.i_attributes[self] THEN NoValue
         ELSE h.i_value[h.i_attributes[self][attr_name]]

\* Element::has_attribute
has_attribute(h, self, name) ==
    IF ~is_element(h, self) THEN FALSE
    ELSE IF from_str(name).result # "Ok" THEN FALSE
    ELSE from_str(name).name \in DOMAIN h.i_attributes[self]

\* The prefix-to-URI mapping of an element: insert_mapping binds the prefix
\* ("" is the default slot) to the URI.
insert_mapping(h, self, prefix, namespace_uri) ==
    [h EXCEPT !.i_namespaces[self] =
                  map_insert(h.i_namespaces[self], prefix, namespace_uri)]

\* The lookup of a prefix in the mapping of an element: the URI, or None.
get_namespace(h, self, prefix) ==
    IF prefix \in DOMAIN h.i_namespaces[self]
    THEN SomeValue(h.i_namespaces[self][prefix])
    ELSE NoValue

\* The outcomes insert_mapping can have.
MappingOutcomes == {"Ok", "Namespace"}

\* The guard of set_attribute_node that lets every node be set as attribute.
can_set_attribute_node_any(h, self, new_attribute) == is_element(h, self)

\* The guard of set_attribute_node: attributes are added to elements only.
can_set_attribute_node(h, self, new_attribute) ==
    is_element(h, self) /\ is_attribute(h, new_attribute)

\* HashMap::insert that keeps the value a key is bound to already.
store_attribute_keeps_old(h, self, new_attribute) ==
    IF h.i_name[new_attribute] \in DOMAIN h.i_attributes[self] THEN h
    ELSE [h EXCEPT !.i_attributes[self] =
                       map_insert(h.i_attributes[self], h.i_name[new_attribute],
                                  new_attribute)]

\* The insertion into the attribute map, keyed by the name of the attribute;
\* the attribute the name was bound to is let go of.
store_attribute(h, self, new_attribute) ==
    collect([h EXCEPT !.i_attributes[self] =
                          map_insert(h.i_attributes[self],
                                     h.i_name[new_attribute], new_attribute)])

\* Element::set_attribute_node; mapping is the outcome of insert_mapping,
\* should it be called.
set_attribute_node(h, self, new_attribute, mapping) ==
    IF ~can_set_attribute_node(h, self, new_attribute)
    THEN Err(h, "InvalidState")
    ELSE LET name == h.i_name[new_attribute] IN
         IF ~is_namespace_attribute(name)
         THEN Ok(store_attribute(h, self, new_attribute), new_attribute)
         ELSE IF ~h.i_value[new_attribute].some
         THEN Err(h, "Panic")              \* attribute.value().unwrap()
         ELSE IF mapping # "Ok"
         THEN Err(h, mapping)
         ELSE Ok(store_attribute(
                     insert_mapping(h, self, name.prefix,
                                    h.i_value[new_attribute].data),
                     self, new_attribute),
                 new_attribute)

\* Element::set_attribute makes its Attribute node: the name is one and the
\* receiver has an owner document.
set_attribute_makes_node(h, self, name) ==
    from_str(name).result = "Ok" /\ h.i_owner_document[self] # NoNode

\* The body of set_attribute and set_attribute_ns: a new Attribute node of
\* the owner document of the receiver, handed to set_attribute_node and not
\* to the caller; the node goes if that fails.
set_attribute_named(h, self, parsed, value, mapping) ==
    IF parsed.result # "Ok" THEN Err(h, parsed.result)
    ELSE IF h.i_owner_document[self] = NoNode
    THEN Err(h, "Panic")                   \* i_owner_document.as_ref().unwrap()
    ELSE LET n == fresh(h)
             made == [new_node(h, n, "Attribute", parsed.name,
                               h.i_owner_document[self], SomeValue(value))
                         EXCEPT !.held[n] = FALSE]
             r == set_attribute_node(made, self, n, mapping)
         IN IF r.result = "Ok" THEN r ELSE Err(h, r.result)

\* Element::set_attribute
set_attribute(h, self, name, value, mapping) ==
    set_attribute_named(h, self, from_str(name), value, mapping)

\* Element::set_attribute_ns makes its Attribute node.
set_attribute_ns_makes_node(h, self, namespace_uri, qualified_name) ==
    /\ new_ns(namespace_uri, qualified_name).result = "Ok"
    /\ h.i_owner_document[self] # NoNode

\* Element::set_attribute_ns
set_attribute_ns(h, self, namespace_uri, qualified_name, value, mapping) ==
    set_attribute_named(h, self, new_ns(namespace_uri, qualified_name), value,
                        mapping)

\* Node::attributes: a copy of the attribute map, so that the caller holds
\* every attribute in it; of a node that is no Element, an empty map.
attributes(h, self) ==
    IF ~is_element(h, self) THEN [h |-> h, map |-> NoEntries]
    ELSE [h |-> [h EXCEPT !.held =
                    [n \in NodeIds |->
                        \/ h.held[n]
                        \/ \E k \in DOMAIN h.i_attributes[self] :
                               h.i_attributes[self][k] = n]],
          map |-> h.i_attributes[self]]

\* Element::get_attribute_node_ns: the attribute under the name Name::new_ns
\* makes of the two strings, which the caller then holds; None when the
\* receiver is no Element, the strings make no name or the name is not in
\* the map.
get_attribute_node_ns(h, self, namespace_uri, local_name) ==
    LET parsed == new_ns(namespace_uri, local_name) IN
    IF ~is_element(h, self) THEN Ok(h, NoNode)
    ELSE IF parsed.result # "Ok" THEN Ok(h, NoNode)
    ELSE IF parsed.name \notin DOMAIN h.i_attributes[self] THEN Ok(h, NoNode)
    ELSE Ok(hold(h, h.i_attributes[self][parsed.name]),
            h.i_attributes[self][parsed.name])

----------------------------------------------------------------------------
\* Element and Document: the tag-name search

\* tag_name_match
tag_name_match(test, against) ==
    (test = against) \/ test = WILD_CARD \/ against = WILD_CARD

\* The Element children of an Element, the only ones the search goes into.
element_children(h, n) ==
    {h.i_child_nodes[n][i] : i \in 1..Len(h.i_child_nodes[n])}
        \cap {c \in NodeIds : is_element(h, c)}

\* The Elements the search started at n calls itself on, at most k levels
\* down.
RECURSIVE searched_below(_, _, _)
searched_below(h, n, k) ==
    IF k = 0 THEN {}
    ELSE element_children(h, n)
             \cup UNION {searched_below(h, c, k - 1) : c \in element_children(h, n)}

\* The recursion of the search started at n comes back to a node it is
\* still working on: it never returns, the stack runs out.
search_overflows(h, n) ==
    \E m \in {n} \cup searched_below(h, n, MaxNodes) :
        m \in searched_below(h, m, MaxNodes)

\* The loop and the recursion of Element::get_elements_by_tag_name: self if
\* it matches, then the results of the Element children in list order.
\* from is the index of the next child to look at, 0 for self.
RECURSIVE search_from(_, _, _, _)
search_from(h, self, tag_name, from) ==
    IF from = 0
    THEN (IF tag_name_match(to_string(h.i_name[self]), tag_name)
          THEN <<self>> ELSE <<>>)
             \o search_from(h, self, tag_name, 1)
    ELSE IF from > Len(h.i_child_nodes[self]) THEN <<>>
    ELSE (IF is_element(h, h.i_child_nodes[self][from])
          THEN search_from(h, h.i_child_nodes[self][from], tag_name, 0)
          ELSE <<>>)
             \o search_from(h, self, tag_name, from + 1)

\* Element::get_elements_by_tag_name
get_elements_by_tag_name(h, self, tag_name) ==
    IF ~is_element(h, self) THEN [result |-> "Ok", nodes |-> <<>>]
    ELSE IF search_overflows(h, self)
    THEN [result |-> "StackOverflow", nodes |-> <<>>]
    ELSE [result |-> "Ok", nodes |-> search_from(h, self, tag_name, 0)]

\* Document::doc_type
doc_type(h, self) == h.i_document_type[self]

\* Document::document_element
document_element(h, self) == h.i_document_element[self]

\* Document::get_elements_by_tag_name: that of the document element.
document_get_elements_by_tag_name(h, self, tag_name) ==
    IF h.i_document_element[self] = NoNode
    THEN [result |-> "Ok", nodes |-> <<>>]
    ELSE IF ~is_element(h, h.i_document_element[self])
    THEN [result |-> "Panic", nodes |-> <<>>]  \* expect("invalid node type")
    ELSE get_elements_by_tag_name(h, h.i_document_element[self], tag_name)

----------------------------------------------------------------------------
\* The state machine.  The caller holds a handle on every node a call gave it
\* (held); the attribute set_attribute makes it holds only once it has taken
\* the attributes of the element.  A node it lets go of is destroyed once no
\* live node refers to it.

\* A call leaves the heap it computed; a call that fails, or aborts, leaves the
\* heap as it was at that point.
Apply(r) ==
    /\ i_node_type' = r.h.i_node_type
    /\ i_name' = r.h.i_name
    /\ alive' = r.h.alive
    /\ i_parent_node' = r.h.i_parent_node
    /\ i_owner_document' = r.h.i_owner_document
    /\ i_child_nodes' = r.h.i_child_nodes
    /\ i_value' = r.h.i_value
    /\ i_document_element' = r.h.i_document_element
    /\ i_document_type' = r.h.i_document_type
    /\ i_attributes' = r.h.i_attributes
    /\ i_namespaces' = r.h.i_namespaces
    /\ overflow_checks' = r.h.overflow_checks
    /\ held' = r.h.held

\* The tag name the elements of a tree are created with.
TagName == <<"a">>

\* The node values the factory methods are called with.
Data(n) == [i \in 1..n |-> IF i % 2 = 1 THEN "a" ELSE "b"]

TreeData == {Data(0), Data(MaxLen)}

Documents == {n \in Alive : i_node_type[n] = "Document"}

\* The documents the caller has a handle on.
HeldDocuments == Documents \cap Held

EmptyHeap ==
    [i_node_type |-> [n \in NodeIds |-> "Unused"],
     i_name |-> [n \in NodeIds |-> NoName],
     alive |-> [n \in NodeIds |-> FALSE],
     i_parent_node |-> [n \in NodeIds |-> NoNode],
     i_owner_document |-> [n \in NodeIds |-> NoNode],
     i_child_nodes |-> [n \in NodeIds |-> <<>>],
     i_value |-> [n \in NodeIds |-> NoValue],
     i_document_element |-> [n \in NodeIds |-> NoNode],
     i_document_type |-> [n \in NodeIds |-> NoNode],
     i_attributes |-> [n \in NodeIds |-> NoEntries],
     i_namespaces |-> [n \in NodeIds |-> NoEntries],
     overflow_checks |-> FALSE,
     held |-> [n \in NodeIds |-> FALSE]]

InitWith(h) ==
    /\ i_node_type = h.i_node_type
    /\ i_name = h.i_name
    /\ alive = h.alive
    /\ i_parent_node = h.i_parent_node
    /\ i_owner_document = h.i_owner_document
    /\ i_child_nodes = h.i_child_nodes
    /\ i_value = h.i_value
    /\ i_document_element = h.i_document_element
    /\ i_document_type = h.i_document_type
    /\ i_attributes = h.i_attributes
    /\ i_namespaces = h.i_namespaces
    /\ overflow_checks = h.overflow_checks
    /\ held = h.held

\* No node yet.
Init == InitWith(EmptyHeap)

\* One document and its root element, as create_document returns them.
InitDocument == InitWith(create_document(EmptyHeap, <<>>, TagName, NoNode).h)

\* The same, in a build that checks integer overflow or in one that does not:
\* the start of the behaviours in which usize arithmetic is done.
InitDocumentBuilds ==
    \E checks \in BOOLEAN :
        InitWith([create_document(EmptyHeap, <<>>, TagName, NoNode).h
                     EXCEPT !.overflow_checks = checks])

\* The reference children insert_before is called with: none, or any node
\* the caller holds, be it in the receiver's child list or not.
RefChildren == {NoNode} \cup Held

CreateDocument ==
    /\ fresh(Heap) # NoNode /\ fresh(Heap) < MaxNodes
    /\ Apply(create_document(Heap, <<>>, TagName, NoNode))

\* Document::document_element, the caller keeping the handle it returns.
DocumentElement ==
    \E self \in HeldDocuments :
        Apply(Err(hold(Heap, document_element(Heap, self)), "Ok"))

CreateElement ==
    \E document \in HeldDocuments :
        /\ fresh(Heap) # NoNode
        /\ Apply(create_element(Heap, document, TagName))

CreateAttribute ==
    \E document \in HeldDocuments :
        /\ fresh(Heap) # NoNode
        /\ Apply(create_attribute(Heap, document, TagName, NoValue))

CreateTextNode ==
    \E document \in HeldDocuments, data \in TreeData :
        /\ fresh(Heap) # NoNode
        /\ Apply(create_node(Heap, document, "Text", SomeValue(data)))

\* Document::create_cdata_section
CreateCDataSection ==
    \E document \in HeldDocuments, data \in TreeData :
        /\ fresh(Heap) # NoNode
        /\ Apply(create_node(Heap, document, "CData", SomeValue(data)))

\* Document::create_document_fragment
CreateDocumentFragment ==
    \E document \in HeldDocuments :
        /\ fresh(Heap) # NoNode
        /\ Apply(create_node(Heap, document, "DocumentFragment", NoValue))

CreateComment ==
    \E document \in HeldDocuments, data \in TreeData :
        /\ fresh(Heap) # NoNode
        /\ Apply(create_node(Heap, document, "Comment", SomeValue(data)))

AppendChildWithin(edges) ==
    \E self \in Held, new_child \in Held :
        LET r == append_child(Heap, self, new_child) IN
        /\ Edges(r.h) <= edges
        /\ Apply(r)

AppendChild == AppendChildWithin(MaxEdges)

TreeAppendChild == AppendChildWithin(MaxTreeEdges)

\* insert_before with any receiver and child; the reference child is absent,
\* a child of the receiver or a node that is not one (the receiver).
InsertBefore ==
    \E self \in Held, new_child \in Held :
        \E ref_child \in RefChildren :
            LET r == insert_before(Heap, self, new_child, ref_child) IN
            /\ Edges(r.h) <= MaxTreeEdges
            /\ Apply(r)

Split ==
    \E self \in Held, offset \in 0..(MaxLen + 1) :
        LET r == split(Heap, self, offset) IN
        /\ split_makes_node(Heap, self) => fresh(Heap) # NoNode
        /\ Edges(r.h) <= MaxEdges
        /\ Apply(r)

\* The caller drops its handle on a node no live node refers to.
Drop ==
    \E n \in Held :
        /\ ~referenced(Heap, n)
        /\ Apply(Err(collect([Heap EXCEPT !.held[n] = FALSE]), "Ok"))

\* The elements of one document, put together by append_child and
\* insert_before.
Next ==
    \/ DocumentElement
    \/ CreateElement
    \/ TreeAppendChild
    \/ InsertBefore

Spec == InitDocument /\ [][Next]_vars

\* The elements of one or more documents, put together by append_child alone,
\* and let go of.
NextDrop ==
    \/ CreateDocument
    \/ DocumentElement
    \/ CreateElement
    \/ AppendChild
    \/ Drop

SpecDrop == Init /\ [][NextDrop]_vars

\* The namespace URIs names are made with: none that is empty, and one.
NamespaceUris == {<<>>, <<"u">>}

\* The tag names elements are created with and searched by.
TagNames == {<<"a">>, <<"b">>}

CreateElementNamed ==
    \E document \in HeldDocuments, tag_name \in TagNames :
        /\ fresh(Heap) # NoNode
        /\ Apply(create_element(Heap, document, tag_name))

\* create_element_ns with the tag name, in a namespace or in none.
CreateElementNs ==
    \E document \in HeldDocuments, namespace_uri \in NamespaceUris :
        /\ fresh(Heap) # NoNode
        /\ Apply(create_element_ns(Heap, document, namespace_uri, TagName))

CreateEntityReference ==
    \E document \in HeldDocuments :
        /\ fresh(Heap) # NoNode
        /\ Apply(create_named(Heap, document, "EntityReference", TagName,
                              NoValue))

\* The elements and entity references of one document, put together by
\* append_child, for the tag-name search to walk.
NextSearch ==
    \/ DocumentElement
    \/ CreateElementNamed
    \/ CreateElementNs
    \/ CreateEntityReference
    \/ AppendChild

SpecSearch == InitDocument /\ [][NextSearch]_vars

\* The names the attribute methods are called with: a plain name, the two
\* forms of a namespace declaration, and a string that is no name.
AttributeNames == {<<"a">>, <<XMLNS>>, <<XMLNS, ":", "p">>}

NotAName == <<":">>

\* The values, namespace URIs among them, attributes are given.
AttributeValues == {<<"u">>, <<"v">>}

CreateAttributeWith ==
    \E document \in HeldDocuments, name \in AttributeNames,
       value \in {NoValue, SomeValue(<<"u">>)} :
        /\ fresh(Heap) # NoNode
        /\ Apply(create_attribute(Heap, document, name, value))

\* create_attribute_ns with a name in a namespace or in none.
CreateAttributeNs ==
    \E document \in HeldDocuments, namespace_uri \in NamespaceUris,
       qualified_name \in AttributeNames :
        /\ fresh(Heap) # NoNode
        /\ Apply(create_attribute_ns(Heap, document, namespace_uri,
                                     qualified_name))

SetAttribute ==
    \E self \in Held, name \in AttributeNames \cup {NotAName},
       value \in AttributeValues, mapping \in MappingOutcomes :
        /\ set_attribute_makes_node(Heap, self, name) => fresh(Heap) # NoNode
        /\ Apply(set_attribute(Heap, self, name, value, mapping))

SetAttributeNs ==
    \E self \in Held, namespace_uri \in NamespaceUris,
       qualified_name \in AttributeNames \cup {NotAName},
       value \in AttributeValues, mapping \in MappingOutcomes :
        /\ set_attribute_ns_makes_node(Heap, self, namespace_uri, qualified_name)
               => fresh(Heap) # NoNode
        /\ Apply(set_attribute_ns(Heap, self, namespace_uri, qualified_name,
                                  value, mapping))

SetAttributeNode ==
    \E self \in Held, new_attribute \in Held, mapping \in MappingOutcomes :
        Apply(set_attribute_node(Heap, self, new_attribute, mapping))

\* The caller takes the attributes of a node.
Attributes ==
    \E self \in Held : Apply(attributes(Heap, self))

\* The caller takes one attribute of a node, by namespace and name.
GetAttributeNodeNs ==
    \E self \in Held, namespace_uri \in NamespaceUris,
       local_name \in AttributeNames \cup {NotAName} :
        Apply(get_attribute_node_ns(Heap, self, namespace_uri, local_name))

\* The value of an attribute, or of any other node, set by the caller.
SetAttributeValue ==
    \E self \in Held, value \in AttributeValues :
        Apply(set_node_value(Heap, self, value))

\* The attributes of the root element of one document, named by qualified
\* names alone.
NextAttributes ==
    \/ DocumentElement
    \/ CreateAttributeWith
    \/ SetAttribute
    \/ SetAttributeNode
    \/ Attributes

SpecAttributes == InitDocument /\ [][NextAttributes]_vars

\* The same, with names in a namespace and the values of nodes set besides.
NextNamespaces ==
    \/ DocumentElement
    \/ CreateAttributeWith
    \/ CreateAttributeNs
    \/ SetAttribute
    \/ SetAttributeNs
    \/ SetAttributeNode
    \/ Attributes
    \/ GetAttributeNodeNs
    \/ SetAttributeValue

SpecNamespaces == InitDocument /\ [][NextNamespaces]_vars

\* The strings the CharacterData edits are called with.
EditData == TreeData \cup {<<"b">>}

\* The offsets and counts the CharacterData edits are called with: within
\* the data, at its end and beyond it.
Offsets == 0..(MaxLen + 1)

\* The counts: those, and the largest a usize holds.
Counts == Offsets \cup {UsizeMax}

CharacterDataNodes == {n \in Alive : is_character_data(Heap, n)}

\* An edit whose result fits the bound on the length of a value.
ApplyEdit(r, n) ==
    /\ length(r.h, n) <= MaxLen
    /\ Apply(r)

Replace ==
    \E self \in CharacterDataNodes \cap Held, offset \in Offsets, count \in Counts,
       replace_data \in EditData :
        ApplyEdit(replace(Heap, self, offset, count, replace_data), self)

AppendData ==
    \E self \in CharacterDataNodes \cap Held, new_data \in EditData :
        ApplyEdit(append(Heap, self, new_data), self)

\* Node::set_node_value, of any node.
SetNodeValue ==
    \E self \in Held, value \in EditData :
        Apply(set_node_value(Heap, self, value))

\* Node::unset_node_value, of any node.
UnsetNodeValue ==
    \E self \in Held : Apply(unset_node_value(Heap, self))

\* The factory methods, called while the character-data nodes are few.
DataCreateTextNode ==
    Cardinality(CharacterDataNodes) < MaxDataNodes /\ CreateTextNode

DataCreateComment ==
    Cardinality(CharacterDataNodes) < MaxDataNodes /\ CreateComment

\* The text nodes and comments of one document, the edits of their data, and
\* the values of all nodes set and unset; delete and insert are calls of
\* replace.
NextData ==
    \/ DocumentElement
    \/ DataCreateTextNode
    \/ DataCreateComment
    \/ Replace
    \/ AppendData
    \/ SetNodeValue
    \/ UnsetNodeValue

SpecData == InitDocumentBuilds /\ [][NextData]_vars

\* The text nodes and CDATA sections of one document under its root element
\* and under attributes, put together by append_child, the text split.
NextText ==
    \/ DocumentElement
    \/ CreateAttribute
    \/ CreateTextNode
    \/ CreateCDataSection
    \/ AppendChild
    \/ Split

SpecText == InitDocumentBuilds /\ [][NextText]_vars

----------------------------------------------------------------------------
\* Every pair of node types: a document, its root element and two nodes made
\* by the factory methods, then append_child and insert_before with any
\* receiver, child and reference child.

\* The node types the factory methods of Document and DOMImplementation make.
CreatableTypes ==
    {"Element", "Attribute", "Text", "CData", "EntityReference",
     "ProcessingInstruction", "Comment", "DocumentFragment", "DocumentType"}

\* The factory method for a node type, with the value it leaves.
create_of_type(h, document, type) ==
    CASE type = "DocumentType" -> create_document_type(h, TagName)
      [] type = "ProcessingInstruction" ->
            create_processing_instruction(h, document, TagName,
                                          SomeValue(Data(MaxLen)))
      [] type \in {"Text", "CData", "Comment"} ->
            create_node(h, document, type, SomeValue(Data(MaxLen)))
      [] type \in {"Element", "Attribute", "EntityReference"} ->
            create_named(h, document, type, TagName, NoValue)
      [] OTHER -> create_node(h, document, type, NoValue)

InitKinds ==
    \E first \in CreatableTypes, second \in CreatableTypes :
        LET document == create_document(EmptyHeap, <<>>, TagName, NoNode)
            one == create_of_type(document.h, document.ret, first)
            two == create_of_type(one.h, document.ret, second)
        IN InitWith(two.h)

KindsAppendChild == AppendChildWithin(MaxKindEdges)

KindsInsertBefore ==
    \E self \in Held, new_child \in Held :
        \E ref_child \in RefChildren :
            LET r == insert_before(Heap, self, new_child, ref_child) IN
            /\ Edges(r.h) <= MaxKindEdges
            /\ Apply(r)

NextKinds ==
    \/ DocumentElement
    \/ KindsAppendChild
    \/ KindsInsertBefore

SpecKinds == InitKinds /\ [][NextKinds]_vars

----------------------------------------------------------------------------
\* Documents and document types.

DocumentTypes == {n \in Alive : i_node_type[n] = "DocumentType"}

CreateDocumentType ==
    \E qualified_name \in {TagName, NotAName} :
        /\ fresh(Heap) # NoNode
        /\ Apply(create_document_type(Heap, qualified_name))

\* A name with a prefix.
PrefixedName == <<"p", ":", "a">>

\* create_document with any name, in a namespace or in none, and with or
\* without a document type.
CreateDocumentWith ==
    \E namespace_uri \in NamespaceUris,
       qualified_name \in TagNames \cup {PrefixedName, NotAName},
       document_type \in {NoNode} \cup (DocumentTypes \cap Held) :
        /\ fresh(Heap) # NoNode /\ fresh(Heap) < MaxNodes
        /\ Apply(create_document(Heap, namespace_uri, qualified_name,
                                 document_type))

\* Documents and document types as the DOMImplementation makes them, the
\* elements the documents make, and a first child here and there.
NextDocuments ==
    \/ DocumentElement
    \/ CreateDocumentType
    \/ CreateDocumentWith
    \/ CreateElementNamed
    \/ CreateElementNs
    \/ KindsAppendChild

SpecDocuments == Init /\ [][NextDocuments]_vars

----------------------------------------------------------------------------
\* The comments, processing instructions and document fragments of one
\* document, appended under the document, under its root element and under
\* one another, and Text::split called on them.

\* Document::create_processing_instruction, with a target that is a name or
\* is none, and with or without data.
CreateProcessingInstruction ==
    \E document \in HeldDocuments, target \in {TagName, NotAName},
       data \in {NoValue, SomeValue(Data(MaxLen))} :
        /\ fresh(Heap) # NoNode
        /\ Apply(create_processing_instruction(Heap, document, target, data))

NextComments ==
    \/ DocumentElement
    \/ CreateComment
    \/ CreateDocumentFragment
    \/ CreateProcessingInstruction
    \/ AppendChild
    \/ Split

SpecComments == InitDocument /\ [][NextComments]_vars

----------------------------------------------------------------------------
\* Properties.  Each is stated of the operation applied to every reachable
\* heap and every choice of arguments among the nodes the caller holds.

\* The child lists and parent links of a heap.
Shape(h) == <<h.i_child_nodes, h.i_parent_node>>

\* A sequence with its k-th entry taken out.
RemoveAt(s, k) == SubSeq(s, 1, k - 1) \o SubSeq(s, k + 1, Len(s))

\* x is an entry of the sequence s.
Occurs(s, x) == \E i \in 1..Len(s) : s[i] = x

\* The number of entries of s that are x.
Count(s, x) == Cardinality({i \in 1..Len(s) : s[i] = x})

\* The nodes reached from n by following parent links, at most k of them.
RECURSIVE AncestorsWithin(_, _, _)
AncestorsWithin(h, n, k) ==
    IF k = 0 \/ parent_node(h, n) = NoNode THEN {}
    ELSE {parent_node(h, n)} \cup AncestorsWithin(h, parent_node(h, n), k - 1)

Ancestors(h, n) == AncestorsWithin(h, n, MaxNodes)

\* The nodes below n in the child lists, at most k levels down.
RECURSIVE DescendantsWithin(_, _, _)
DescendantsWithin(h, n, k) ==
    IF k = 0 THEN {}
    ELSE LET below == {h.i_child_nodes[n][i] : i \in 1..Len(h.i_child_nodes[n])}
         IN below \cup UNION {DescendantsWithin(h, c, k - 1) : c \in below}

Descendants(h, n) == DescendantsWithin(h, n, MaxNodes)

\* The child-allowance table as the specification gives it.
AllowanceTable(parent_type) ==
    CASE parent_type = "Document" ->
            {"Element", "Comment", "ProcessingInstruction", "DocumentType"}
      [] parent_type \in {"DocumentFragment", "Element", "EntityReference",
                          "Entity"} ->
            {"Element", "Text", "Comment", "ProcessingInstruction", "CData",
             "EntityReference"}
      [] parent_type = "Attribute" -> {"Text", "EntityReference"}
      [] OTHER -> {}

\* C1: append_child of a child whose type the table does not list under the
\* type of the receiver fails with HierarchyRequest and leaves the heap, so
\* the child lists and parent links of both nodes, as it was; and the code's
\* rules are the table, for every pair of node types.
C1_DisallowedAppendFails ==
    /\ \A parent_type \in NodeTypes, child_type \in NodeTypes :
          child_type_allowed(parent_type, child_type)
              <=> child_type \in AllowanceTable(parent_type)
    /\ \A self \in Held, new_child \in Held :
          i_node_type[new_child] \notin AllowanceTable(i_node_type[self])
              => LET r == append_child(Heap, self, new_child) IN
                 /\ r.result = "HierarchyRequest"
                 /\ Shape(r.h) = Shape(Heap)

\* C1, reached: a receiver that has a child refuses a child of a type it does
\* not allow.
C1_Witness ==
    \E self \in Held, new_child \in Held :
        /\ i_child_nodes[self] # <<>>
        /\ i_node_type[new_child] \notin AllowanceTable(i_node_type[self])
        /\ append_child(Heap, self, new_child).result = "HierarchyRequest"

\* Two nodes that belong to different documents.
DifferentDocuments(h, a, b) ==
    /\ owner_document(h, a) # NoNode
    /\ owner_document(h, b) # NoNode
    /\ owner_document(h, a) # owner_document(h, b)

\* C2: append_child of a child of an allowed type that belongs to another
\* document than the receiver fails with WrongDocument, and the child is not
\* added to the child list.
C2_WrongDocument ==
    \A self \in Held, new_child \in Held :
        (is_child_allowed(Heap, self, new_child)
            /\ DifferentDocuments(Heap, self, new_child))
            => LET r == append_child(Heap, self, new_child) IN
               /\ r.result = "WrongDocument"
               /\ r.h.i_child_nodes[self] = i_child_nodes[self]

\* C3: a successful append_child(parent, child) returns the child, leaves it
\* with the parent as parent_node() and the parent's owner_document(), and
\* makes it the last entry of the parent's child list, the earlier entries
\* as they were.
C3_AppendChildSucceeds ==
    \A self \in Held, new_child \in Held :
        LET r == append_child(Heap, self, new_child) IN
        r.result = "Ok"
            => /\ r.ret = new_child
               /\ parent_node(r.h, new_child) = self
               /\ owner_document(r.h, new_child) = owner_document(r.h, self)
               /\ Len(r.h.i_child_nodes[self]) = Len(i_child_nodes[self]) + 1
               /\ r.h.i_child_nodes[self][Len(r.h.i_child_nodes[self])] = new_child
               /\ SubSeq(r.h.i_child_nodes[self], 1, Len(i_child_nodes[self]))
                      = i_child_nodes[self]

\* C3, reached: a node that has children takes one more, a node that had
\* another parent link and another owner document before.
C3_Witness ==
    \E self \in Held, new_child \in Held :
        /\ i_child_nodes[self] # <<>>
        /\ i_parent_node[new_child] # self
        /\ i_owner_document[new_child] # i_owner_document[self]
        /\ append_child(Heap, self, new_child).result = "Ok"

\* C4: every node occurs in at most one child list, and at most once in it.
C4_SingleOccurrence ==
    \A c \in Alive :
        /\ \A p \in Alive : Count(i_child_nodes[p], c) <= 1
        /\ \A p \in Alive, q \in Alive :
              (Occurs(i_child_nodes[p], c) /\ Occurs(i_child_nodes[q], c))
                  => p = q

\* C5: append_child of the receiver itself or of one of its ancestors fails
\* with HierarchyRequest, and no node is its own descendant.
C5_NoCycle ==
    /\ \A self \in Held, new_child \in Held :
          (new_child = self \/ new_child \in Ancestors(Heap, self))
              => append_child(Heap, self, new_child).result = "HierarchyRequest"
    /\ \A n \in Alive : n \notin Descendants(Heap, n)

\* The entries of the child list of p are distinct nodes.
DistinctChildren(h, p) ==
    \A i \in 1..Len(h.i_child_nodes[p]), j \in 1..Len(h.i_child_nodes[p]) :
        h.i_child_nodes[p][i] = h.i_child_nodes[p][j] => i = j

\* C6: in a child list c1..cn of distinct nodes, a child ci that was
\* appended to this parent (its parent link is the parent) has c(i+1) as
\* next_sibling(), nothing when i = n, and c(i-1) as previous_sibling(),
\* nothing when i = 1; a node with no parent, or with a parent that has been
\* destroyed, has neither.
C6_Siblings ==
    /\ \A p \in Alive :
          DistinctChildren(Heap, p)
              => \A i \in 1..Len(i_child_nodes[p]) :
                    LET c == i_child_nodes[p][i]
                        n == Len(i_child_nodes[p])
                    IN i_parent_node[c] = p
                          => /\ next_sibling(Heap, c)
                                   = IF i < n THEN i_child_nodes[p][i + 1]
                                     ELSE NoNode
                             /\ previous_sibling(Heap, c)
                                   = IF i > 1 THEN i_child_nodes[p][i - 1]
                                     ELSE NoNode
    /\ \A c \in Alive :
          parent_node(Heap, c) = NoNode
              => /\ next_sibling(Heap, c) = NoNode
                 /\ previous_sibling(Heap, c) = NoNode

\* C6, reached: a parent with three distinct children, each appended to it.
C6_Witness ==
    \E p \in Alive :
        /\ Len(i_child_nodes[p]) >= 3
        /\ DistinctChildren(Heap, p)
        /\ \A i \in 1..Len(i_child_nodes[p]) :
              i_parent_node[i_child_nodes[p][i]] = p

\* C6, the other case reached: a node with a sibling in the list of a parent
\* that has been destroyed.
C6_DestroyedParentReached ==
    \E c \in Alive :
        /\ i_parent_node[c] # NoNode
        /\ ~alive[i_parent_node[c]]

\* C7: insert_before with a reference child returns the new child; when the
\* reference child is in the receiver's child list the new child stands
\* immediately before an entry that is the reference child, when it is not
\* the new child stands at the end; the list without the new entry is the
\* list as it was.
C7_InsertBeforePlace ==
    \A self \in Held, new_child \in Held, ref_child \in Held :
        LET r == insert_before(Heap, self, new_child, ref_child)
            old == i_child_nodes[self]
            new == r.h.i_child_nodes[self]
        IN /\ r.result = "Ok"
           /\ r.ret = new_child
           /\ Len(new) = Len(old) + 1
           /\ IF Occurs(old, ref_child)
              THEN \E k \in 1..Len(old) :
                      /\ new[k] = new_child
                      /\ new[k + 1] = ref_child
                      /\ RemoveAt(new, k) = old
              ELSE new = Append(old, new_child)

\* C7, reached: a new child is put before the second of two children, and
\* one is put into a list that does not hold the reference child.
C7_Witness ==
    /\ \E self \in Held, new_child \in Held, ref_child \in Held :
          /\ Len(i_child_nodes[self]) >= 2
          /\ position(i_child_nodes[self], ref_child) >= 2
          /\ insert_before(Heap, self, new_child, ref_child).result = "Ok"
    /\ \E self \in Held, new_child \in Held, ref_child \in Held :
          /\ i_child_nodes[self] # <<>>
          /\ ~Occurs(i_child_nodes[self], ref_child)
          /\ insert_before(Heap, self, new_child, ref_child).result = "Ok"

\* C8: insert_before with no reference child is append_child: the same
\* result, the same node returned and the same heap.
C8_InsertBeforeNoneIsAppend ==
    \A self \in Held, new_child \in Held :
        insert_before(Heap, self, new_child, NoNode)
            = append_child(Heap, self, new_child)

\* C9: insert_before with a reference child, of a new child whose type the
\* table does not list under the type of the receiver, fails with
\* HierarchyRequest and leaves the receiver's child list as it was.
C9_InsertBeforeValidates ==
    \A self \in Held, new_child \in Held, ref_child \in Held :
        i_node_type[new_child] \notin AllowanceTable(i_node_type[self])
            => LET r == insert_before(Heap, self, new_child, ref_child) IN
               /\ r.result = "HierarchyRequest"
               /\ r.h.i_child_nodes[self] = i_child_nodes[self]

\* C10: every entry c of the child list of a node p has p as parent_node().
C10_ParentLinksAgree ==
    \A p \in Alive :
        \A i \in 1..Len(i_child_nodes[p]) :
            parent_node(Heap, i_child_nodes[p][i]) = p

\* The number of children of p that have the given node type.
CountOfType(h, p, type) ==
    Cardinality({i \in 1..Len(h.i_child_nodes[p]) :
                    h.i_node_type[h.i_child_nodes[p][i]] = type})

\* C11: the child list of a Document holds at most one Element and at most
\* one DocumentType, and append_child on a Document that has an Element (a
\* DocumentType) child does not succeed for one more Element (DocumentType).
C11_DocumentSingleElement ==
    \A d \in Alive :
        i_node_type[d] = "Document"
            => \A type \in {"Element", "DocumentType"} :
                  /\ CountOfType(Heap, d, type) <= 1
                  /\ \A new_child \in Held :
                        (CountOfType(Heap, d, type) = 1
                            /\ i_node_type[new_child] = type)
                            => append_child(Heap, d, new_child).result # "Ok"

\* C12: on a character-data node, whether its value is unset, empty or not,
\* replace(0, length(), s) succeeds for every string s and leaves data()
\* as Some(s).
C12_ReplaceAll ==
    \A n \in CharacterDataNodes, s \in EditData :
        LET r == replace(Heap, n, 0, length(Heap, n), s) IN
        /\ r.result = "Ok"
        /\ node_value(r.h, n) = SomeValue(s)

\* C13: substring(offset, 0) is Ok("") for every offset, within the data, at
\* its end or beyond it, on a node with data, with empty data or with no
\* value; substring takes the node by shared reference and returns a string,
\* so the node is as it was.
C13_SubstringOfNothing ==
    \A n \in CharacterDataNodes, offset \in Offsets :
        substring(Heap, n, offset, 0) = [result |-> "Ok", str |-> <<>>]

\* C13, reached: a node whose value was unset, asked for nothing at an offset
\* beyond any length.
C13_Witness ==
    \E n \in CharacterDataNodes :
        /\ ~i_value[n].some
        /\ substring(Heap, n, MaxLen + 1, 0).result = "Ok"

\* The smaller of two numbers.
Min(a, b) == IF a <= b THEN a ELSE b

\* C14: split(offset) on a Text or CData node with data d succeeds, leaves
\* the node with d[..min(offset, length)] and returns a new node of the same
\* type, owned by the same document, with data d[min(offset, length)..].
C14_SplitHalves ==
    \A n \in Held, offset \in Offsets :
        (/\ i_node_type[n] \in {"Text", "CData"}
         /\ i_value[n].some
         /\ split_makes_node(Heap, n) => fresh(Heap) # NoNode)
            => LET r == split(Heap, n, offset)
                   d == i_value[n].data
                   cut == Min(offset, Len(d))
               IN /\ r.result = "Ok"
                  /\ node_value(r.h, n) = SomeValue(str_range(d, 0, cut))
                  /\ r.h.i_node_type[r.ret] = i_node_type[n]
                  /\ owner_document(r.h, r.ret) = owner_document(Heap, n)
                  /\ node_value(r.h, r.ret) = SomeValue(str_from(d, cut))

\* The attribute map of self in heap new is the one in heap old with the
\* name bound anew: every other name is bound as it was.
OtherEntriesKept(old, new, self, name) ==
    /\ DOMAIN new.i_attributes[self] = (DOMAIN old.i_attributes[self]) \cup {name}
    /\ \A k \in (DOMAIN old.i_attributes[self]) \ {name} :
          new.i_attributes[self][k] = old.i_attributes[self][k]

\* C15: after a successful set_attribute(name, value), or set_attribute_node
\* of an attribute the caller holds, of that name (the one the string name
\* gives, in no namespace) and value, get_attribute(name) is
\* Some(value) and has_attribute(name) holds, whatever the name was bound to;
\* the map binds the name to the one new attribute, every other name as
\* before, and the child list of the element is as it was.
C15_SetThenGet ==
    /\ \A self \in Held, name \in AttributeNames, value \in AttributeValues,
          mapping \in MappingOutcomes :
          (set_attribute_makes_node(Heap, self, name) => fresh(Heap) # NoNode)
              => LET r == set_attribute(Heap, self, name, value, mapping) IN
                 r.result = "Ok"
                     => /\ get_attribute(r.h, self, name) = SomeValue(value)
                        /\ has_attribute(r.h, self, name)
                        /\ OtherEntriesKept(Heap, r.h, self, from_str(name).name)
                        /\ r.h.i_attributes[self][from_str(name).name]
                               = fresh(Heap)
                        /\ r.h.i_child_nodes[self] = i_child_nodes[self]
    /\ \A self \in Held, new_attribute \in Held, mapping \in MappingOutcomes :
          LET r == set_attribute_node(Heap, self, new_attribute, mapping)
              name == i_name[new_attribute]
          IN (/\ r.result = "Ok"
              /\ held[new_attribute]
              /\ i_value[new_attribute].some
              /\ from_str(to_string(name)).name = name)
                 => /\ r.ret = new_attribute
                    /\ get_attribute(r.h, self, to_string(name))
                           = i_value[new_attribute]
                    /\ has_attribute(r.h, self, to_string(name))
                    /\ OtherEntriesKept(Heap, r.h, self, name)
                    /\ r.h.i_attributes[self][name] = new_attribute
                    /\ r.h.i_child_nodes[self] = i_child_nodes[self]

\* C15, reached: an element that has an attribute of a name, with a value,
\* is given that name with another value by set_attribute, and an attribute
\* with a value by set_attribute_node.
C15_Witness ==
    \E self \in Held, name \in AttributeNames :
        /\ get_attribute(Heap, self, name) = SomeValue(<<"u">>)
        /\ fresh(Heap) # NoNode
        /\ set_attribute(Heap, self, name, <<"v">>, "Ok").result = "Ok"
        /\ \E new_attribute \in Held :
              /\ i_value[new_attribute].some
              /\ set_attribute_node(Heap, self, new_attribute, "Ok").result = "Ok"

\* C16: set_attribute_node on a receiver that is no Element, or of a node
\* that is no Attribute, fails with InvalidState and leaves every attribute
\* map and every prefix mapping as it was.
C16_SetAttributeNodeRefuses ==
    \A self \in Held, new_attribute \in Held, mapping \in MappingOutcomes :
        (~is_element(Heap, self) \/ ~is_attribute(Heap, new_attribute))
            => LET r == set_attribute_node(Heap, self, new_attribute, mapping) IN
               /\ r.result = "InvalidState"
               /\ r.h.i_attributes = i_attributes
               /\ r.h.i_namespaces = i_namespaces

\* C16, reached: a Document is given a namespace declaration with a value,
\* and an Element that has attributes is given a node that is no Attribute.
C16_Witness ==
    /\ \E self \in Held, new_attribute \in Held :
          /\ i_node_type[self] = "Document"
          /\ is_attribute(Heap, new_attribute)
          /\ is_namespace_attribute(i_name[new_attribute])
          /\ i_value[new_attribute].some
          /\ set_attribute_node(Heap, self, new_attribute, "Ok").result
                 = "InvalidState"
    /\ \E self \in Held, new_attribute \in Held :
          /\ is_element(Heap, self)
          /\ DOMAIN i_attributes[self] # {}
          /\ ~is_attribute(Heap, new_attribute)
          /\ set_attribute_node(Heap, self, new_attribute, "Ok").result
                 = "InvalidState"

\* The prefix a namespace declaration declares: the local name of xmlns:p,
\* the default slot for plain xmlns.
DeclaredPrefix(name) == IF name.prefix = XMLNS THEN name.local_name ELSE ""

\* C17: set_attribute_node of a namespace declaration with a value (the
\* URI) on an Element binds the declared prefix to the URI in the prefix
\* mapping of the element and stores the attribute; when the mapping cannot
\* be recorded the error is returned and the attribute is not stored.
C17_NamespaceDeclaration ==
    \A self \in Held, new_attribute \in Held, mapping \in MappingOutcomes :
        (/\ is_element(Heap, self)
         /\ is_attribute(Heap, new_attribute)
         /\ is_namespace_attribute(i_name[new_attribute])
         /\ i_value[new_attribute].some)
            => LET r == set_attribute_node(Heap, self, new_attribute, mapping)
                   name == i_name[new_attribute]
               IN IF mapping = "Ok"
                  THEN /\ r.result = "Ok"
                       /\ get_namespace(r.h, self, DeclaredPrefix(name))
                              = i_value[new_attribute]
                       /\ r.h.i_attributes[self][name] = new_attribute
                  ELSE /\ r.result = mapping
                       /\ r.h.i_attributes = i_attributes

\* The nodes below n form a tree: no node is met twice on the way down.
RECURSIVE IsTreeWithin(_, _, _)
IsTreeWithin(h, n, k) ==
    /\ k > 0
    /\ DistinctChildren(h, n)
    /\ \A i \in 1..Len(h.i_child_nodes[n]) :
          /\ IsTreeWithin(h, h.i_child_nodes[n][i], k - 1)
          /\ \A j \in 1..Len(h.i_child_nodes[n]) :
                i # j => ({h.i_child_nodes[n][i]}
                             \cup Descendants(h, h.i_child_nodes[n][i]))
                         \cap ({h.i_child_nodes[n][j]}
                                   \cup Descendants(h, h.i_child_nodes[n][j]))
                         = {}

IsTree(h, n) == n \notin Descendants(h, n) /\ IsTreeWithin(h, n, MaxNodes + 1)

\* The Elements of the tree at n in pre-order: n itself if it is an Element,
\* then those of each child, of whatever type, in list order.
RECURSIVE PreOrderFrom(_, _, _)
PreOrderFrom(h, n, from) ==
    IF from = 0
    THEN (IF is_element(h, n) THEN <<n>> ELSE <<>>) \o PreOrderFrom(h, n, 1)
    ELSE IF from > Len(h.i_child_nodes[n]) THEN <<>>
    ELSE PreOrderFrom(h, h.i_child_nodes[n][from], 0)
             \o PreOrderFrom(h, n, from + 1)

\* C18: get_elements_by_tag_name("*") on an Element whose subtree is a tree
\* returns the Elements of the subtree in pre-order, each once: the element
\* itself, then the Elements at any depth, those below a child that is no
\* Element among them.
C18_SearchAll ==
    \A self \in Held :
        (is_element(Heap, self) /\ IsTree(Heap, self))
            => get_elements_by_tag_name(Heap, self, WILD_CARD)
                   = [result |-> "Ok", nodes |-> PreOrderFrom(Heap, self, 0)]

\* C19: a successful create_document(namespace_uri, qualified_name, doc_type)
\* returns a Document whose document_element() is an Element of that name
\* (and, like the Document, of that namespace), with the
\* Document as owner_document() and no parent, and whose doc_type() is the
\* one passed in; and get_elements_by_tag_name on a Document is
\* get_elements_by_tag_name on its document element.
C19_CreateDocument ==
    /\ \A namespace_uri \in NamespaceUris,
          qualified_name \in TagNames \cup {PrefixedName, NotAName},
          document_type \in {NoNode} \cup DocumentTypes :
          (fresh(Heap) # NoNode /\ fresh(Heap) < MaxNodes)
              => LET r == create_document(Heap, namespace_uri, qualified_name,
                                          document_type)
                     root == document_element(r.h, r.ret)
                 IN r.result = "Ok"
                        => /\ r.h.i_node_type[r.ret] = "Document"
                           /\ root # NoNode
                           /\ is_element(r.h, root)
                           /\ to_string(r.h.i_name[root]) = qualified_name
                           /\ r.h.i_name[root].namespace_uri
                                  = SomeValue(namespace_uri)
                           /\ r.h.i_name[r.ret] = r.h.i_name[root]
                           /\ doc_type(r.h, r.ret) = document_type
                           /\ owner_document(r.h, root) = r.ret
                           /\ parent_node(r.h, root) = NoNode
                           /\ \A tag_name \in TagNames \cup {WILD_CARD} :
                                 document_get_elements_by_tag_name(
                                     r.h, r.ret, tag_name)
                                     = get_elements_by_tag_name(r.h, root, tag_name)
    /\ \A d \in Documents, tag_name \in TagNames \cup {WILD_CARD} :
          document_get_elements_by_tag_name(Heap, d, tag_name)
              = get_elements_by_tag_name(Heap, document_element(Heap, d),
                                         tag_name)

\* C19, reached: a document made by create_document with a document type
\* and the name b, its root with a child for the search to find.
C19_Witness ==
    \E d \in Documents, document_type \in DocumentTypes :
        /\ doc_type(Heap, d) = document_type
        /\ to_string(i_name[document_element(Heap, d)]) = <<"b">>
        /\ owner_document(Heap, document_element(Heap, d)) = d
        /\ Len(document_get_elements_by_tag_name(Heap, d, WILD_CARD).nodes) = 2

\* C20: last_child() is the last entry of the child list and first_child()
\* the first, nothing when the list is empty; of two or more distinct
\* children the first and the last are different nodes.
C20_FirstAndLastChild ==
    \A n \in Alive :
        LET children == i_child_nodes[n] IN
        /\ first_child(Heap, n)
               = IF children = <<>> THEN NoNode ELSE children[1]
        /\ last_child(Heap, n)
               = IF children = <<>> THEN NoNode ELSE children[Len(children)]
        /\ (Len(children) >= 2 /\ DistinctChildren(Heap, n))
               => first_child(Heap, n) # last_child(Heap, n)

\* C21: insert(offset, data) succeeds for every offset from 0 to the length
\* of the data of the node, the length itself included, and leaves
\* old[..offset] + data + old[offset..].
C21_InsertUpToLength ==
    \A n \in CharacterDataNodes, new_data \in EditData :
        i_value[n].some
            => \A offset \in 0..Len(i_value[n].data) :
                  LET r == insert(Heap, n, offset, new_data)
                      old == i_value[n].data
                  IN /\ r.result = "Ok"
                     /\ node_value(r.h, n)
                            = SomeValue(str_range(old, 0, offset) \o new_data
                                            \o str_from(old, offset))

\* C22: substring(offset, count) with count > 0 fails with IndexSize when the
\* node has no value or offset >= length; otherwise it returns value[offset..]
\* when offset + count >= length and value[offset..offset+count] when it is
\* less, for every count a usize holds.
C22_Substring ==
    \A n \in CharacterDataNodes, offset \in Offsets, count \in Counts \ {0} :
        LET r == substring(Heap, n, offset, count)
            value == i_value[n]
        IN IF ~value.some \/ offset >= Len(value.data)
           THEN r.result = "IndexSize"
           ELSE /\ r.result = "Ok"
                /\ r.str = IF offset + count >= Len(value.data)
                           THEN str_from(value.data, offset)
                           ELSE str_range(value.data, offset, offset + count)

\* C23: replace(offset, count, data) on a node with no value succeeds only
\* when offset + count = 0, setting the value to data, and otherwise fails with
\* IndexSize; on a node with a value it fails with IndexSize when
\* offset >= length and otherwise sets the value to
\* old[..offset] + data + old[min(offset+count, length)..]; a failure changes
\* nothing; delete(offset, count) with count > 0 is replace(offset, count, "").
C23_Replace ==
    \A n \in CharacterDataNodes, offset \in Offsets, count \in Counts,
       replace_data \in EditData :
        LET r == replace(Heap, n, offset, count, replace_data)
            value == i_value[n]
        IN /\ IF ~value.some
              THEN IF offset + count = 0
                   THEN /\ r.result = "Ok"
                        /\ node_value(r.h, n) = SomeValue(replace_data)
                   ELSE r.result = "IndexSize"
              ELSE IF offset >= Len(value.data)
                   THEN r.result = "IndexSize"
                   ELSE /\ r.result = "Ok"
                        /\ node_value(r.h, n)
                               = SomeValue(
                                   str_range(value.data, 0, offset)
                                       \o replace_data
                                       \o str_from(value.data,
                                                   Min(offset + count,
                                                       Len(value.data))))
           /\ r.result # "Ok" => r.h = Heap
           /\ count > 0
                 => delete(Heap, n, offset, count)
                        = replace(Heap, n, offset, count, <<>>)

\* C29: on data of length L and with offset < L, substring, delete and replace
\* take every count with offset + count >= L as "to the end of the data", the
\* largest usize included: the sum does not wrap and the call does not abort.
C29_CountToTheEnd ==
    \A n \in CharacterDataNodes, offset \in Offsets, count \in Counts,
       replace_data \in EditData :
        LET value == i_value[n] IN
        (value.some /\ offset < Len(value.data)
            /\ offset + count >= Len(value.data))
            => /\ substring(Heap, n, offset, count)
                   = [result |-> "Ok", str |-> str_from(value.data, offset)]
               /\ LET r == delete(Heap, n, offset, count)
                  IN /\ r.result = "Ok"
                     /\ node_value(r.h, n)
                            = SomeValue(str_range(value.data, 0, offset))
               /\ LET r == replace(Heap, n, offset, count, replace_data)
                  IN /\ r.result = "Ok"
                     /\ node_value(r.h, n)
                            = SomeValue(str_range(value.data, 0, offset)
                                            \o replace_data)

\* The list with node put right after the entry at index i.
InsertedAfter(list, i, node) ==
    SubSeq(list, 1, i) \o <<node>> \o SubSeq(list, i + 1, Len(list))

\* C24: split on a Text or CData node that has a parent succeeds, puts the new
\* node into the child list of the parent right after the node, sets the
\* parent of the new node to that parent and leaves every other child and
\* every other list as it was; on a node with no parent it returns the new
\* node detached and changes no child list.
C24_SplitNextSibling ==
    \A n \in Held, offset \in Offsets :
        (/\ i_node_type[n] \in {"Text", "CData"}
         /\ i_value[n].some
         /\ split_makes_node(Heap, n) => fresh(Heap) # NoNode)
            => LET r == split(Heap, n, offset)
                   parent == i_parent_node[n]
               IN /\ r.result = "Ok"
                  /\ r.h.i_parent_node[r.ret] = parent
                  /\ IF parent = NoNode
                     THEN r.h.i_child_nodes = i_child_nodes
                     ELSE /\ \E i \in 1..Len(i_child_nodes[parent]) :
                                /\ i_child_nodes[parent][i] = n
                                /\ r.h.i_child_nodes[parent]
                                       = InsertedAfter(i_child_nodes[parent],
                                                       i, r.ret)
                          /\ \A m \in NodeIds \ {parent} :
                                r.h.i_child_nodes[m] = i_child_nodes[m]

\* C25: split on a Comment fails with Syntax and leaves the data of the
\* comment as it was, for every offset, those below the length included.
C25_SplitCommentKeepsData ==
    \A n \in Held, offset \in Offsets :
        i_node_type[n] = "Comment"
            => LET r == split(Heap, n, offset)
               IN /\ r.result = "Syntax"
                  /\ node_value(r.h, n) = node_value(Heap, n)

\* C26: every node reached from a Document through child lists has that
\* Document as its owner document, whatever append_child and split calls came
\* before, a node appended right under the Document included.
C26_OwnerOfDescendants ==
    \A document \in Documents :
        \A n \in Descendants(Heap, document) :
            owner_document(Heap, n) = document

\* C27: append_child on a node whose parent has been destroyed, so that its
\* weak parent reference upgrades to nothing, returns success or an error:
\* it does not abort on the failed upgrade.
C27_AppendUnderOrphan ==
    \A self \in Held, new_child \in Held :
        (/\ i_parent_node[self] # NoNode
         /\ upgrade(Heap, i_parent_node[self]) = NoNode)
            => append_child(Heap, self, new_child).result # "Panic"

\* C28: get_elements_by_tag_name terminates with a finite list on every node
\* graph that create_* and append_child build, one where a node was appended
\* to its own descendant or under two parents included.
C28_SearchTerminates ==
    \A self \in Held, tag_name \in TagNames \cup {WILD_CARD} :
        get_elements_by_tag_name(Heap, self, tag_name).result = "Ok"

\* C30: set_attribute_node on an Element returns success or an error for
\* every Attribute node, a namespace declaration (xmlns or xmlns:prefix) made
\* by create_attribute with no value included: it does not abort.
C30_SetAttributeNodeReturns ==
    \A self \in Held, new_attribute \in Held, mapping \in MappingOutcomes :
        (is_element(Heap, self) /\ is_attribute(Heap, new_attribute))
            => set_attribute_node(Heap, self, new_attribute, mapping).result
                   # "Panic"

====
